---- MODULE Spec2Model ----
(***************************************************************************)
(* Model of src/scripts/ingest.ts: the ingestion script that provisions a  *)
(* Qdrant collection, reads data/laws.csv, embeds every row that has a     *)
(* text_th value and upserts the vector with its payload.                  *)
(*                                                                         *)
(* The file holds three successive scripts (lines 1-95, 97-201, 203-312).  *)
(* They share the same control flow and differ in the delay (300 / 500 ms),*)
(* in the failure log line, and in whether the file check comes after      *)
(* (scripts 1, 2) or before (script 3) the provisioning of the collection. *)
(* The variable version selects the script.                                *)
(*                                                                         *)
(* Every await of the script is modelled by two steps: the step that       *)
(* issues the call (appending a pending entry to calls) and the step in    *)
(* which the call returns or throws.                                       *)
(***************************************************************************)
EXTENDS Integers, Sequences, FiniteSets, TLC

\* ------------------------------------------------------------------ bounds

\* Longest CSV file (number of data rows) of a single run.
MaxRows == 3

\* Longest CSV file when the script is run several times in succession.
MaxRerunRows == 1

\* Number of successive runs of the script against the same index service.
MaxRuns == 2

\* --------------------------------------------------------------- constants

HF_MODEL == "intfloat/multilingual-e5-base"

COLLECTION_NAME == "nitisure_laws"

\* Another collection that the index service may already hold.
OtherCollection == "other_collection"

VECTOR_SIZE == 768

DISTANCE == "Cosine"

RequiredKeys == {"HF_TOKEN", "QDRANT_URL", "QDRANT_KEY"}

Versions == {1, 2, 3}

\* Vector lengths the embedding service may answer with, and that a
\* collection created by somebody else may be configured with.
Dims == {VECTOR_SIZE, VECTOR_SIZE \div 2}

\* The JavaScript value undefined (a column that the CSV row does not have).
undefined == "#undefined"

\* Values of the text_th column.
TextValues == {undefined, "", "th"}

\* Per-record states of the orchestrator (position of the loop body).
PENDING == "PENDING"

SKIPPED == "SKIPPED"

EMBEDDING == "EMBEDDING"

WRITING == "WRITING"

DONE == "DONE"

FAILED == "FAILED"

Terminal == {SKIPPED, FAILED, DONE}

\* Value of exitCode while the process has not ended.
Running == 0 - 1

VARIABLES
    version,      \* which of the three scripts runs
    env,          \* names of the environment variables that are set
    fileExists,   \* fs.existsSync(FILE_PATH)
    file,         \* the data rows of laws.csv, in file order
    collections,  \* index service: collection name -> configuration
    points,       \* index service: points of COLLECTION_NAME
    uuid,         \* number of identities drawn from crypto.randomUUID()
    pc,           \* position of the script
    rows,         \* const rows: any[]
    i,            \* position of the for..of loop in rows (1-based)
    recState,     \* per-record state, by row position
    calls,        \* calls issued to external services in this run
    console,      \* lines written by console.log / console.error
    exitCode,     \* Running, or the exit status of the process
    run,          \* number of the current run
    history       \* provisioning calls and collections of the earlier runs

vars == <<version, env, fileExists, file, collections, points, uuid, pc, rows,
          i, recState, calls, console, exitCode, run, history>>

\* ----------------------------------------------------------------- helpers

Range(s) == {s[n] : n \in DOMAIN s}

\* A CSV row at position k with text_th = t.  The other columns are present.
Row(k, t) ==
    [ID |-> k,
     act_name_thai |-> "act_th", act_name_eng |-> "act_en",
     section_number_eng |-> ToString(k),
     text_th |-> t, text_eng |-> "en",
     notes_thai |-> "notes",
     keywords_th |-> "kw_th", keywords_eng |-> "kw_en",
     related_cases |-> "cases",
     source_url |-> "url", law_category |-> "cat"]

\* All files of n rows.
FilesOfLen(n) == {[k \in 1..n |-> Row(k, t[k])] : t \in [1..n -> TextValues]}

Files(max) == UNION {FilesOfLen(n) : n \in 0..max}

\* The columns other than text_th that the script reads.
OptionalColumns ==
    {"act_name_thai", "act_name_eng", "section_number_eng", "text_eng",
     "notes_thai", "keywords_th", "keywords_eng", "related_cases",
     "source_url", "law_category"}

\* The row Row(k, t) of a file that lacks the columns of absent.
RowWithout(k, t, absent) ==
    [c \in DOMAIN Row(k, t) |-> IF c \in absent THEN undefined ELSE Row(k, t)[c]]

\* Variant of Falsy that takes only an absent value for falsy.
FalsyMutEmpty(v) == v = undefined

\* JavaScript truthiness of a string-or-undefined value, negated: !v
Falsy(v) == v = undefined \/ v = ""

\* Interpolation `${v}` in a template literal.
interpolate(v) == IF v = undefined THEN "undefined" ELSE v

\* const textToEmbed = `...`.trim(): the labelled lines, in order.
textToEmbed(row) ==
    << <<"Law", interpolate(row.act_name_thai), interpolate(row.act_name_eng)>>,
       <<"Section", interpolate(row.section_number_eng)>>,
       <<"Thai Text", interpolate(row.text_th)>>,
       <<"Eng Text", interpolate(row.text_eng)>>,
       <<"Explanation", interpolate(row.notes_thai)>>,
       <<"Keywords", interpolate(row.keywords_th), interpolate(row.keywords_eng)>>,
       <<"Cases", interpolate(row.related_cases)>> >>

\* Variant of payload that takes the explanation from the English text.
payloadMutWrongColumn(row) ==
    [act_name |-> row.act_name_thai,
     section |-> row.section_number_eng,
     text |-> row.text_th,
     explanation |-> row.text_eng,
     url |-> row.source_url,
     category |-> row.law_category]

\* payload: {...} of the upserted point.
payload(row) ==
    [act_name |-> row.act_name_thai,
     section |-> row.section_number_eng,
     text |-> row.text_th,
     explanation |-> row.notes_thai,
     url |-> row.source_url,
     category |-> row.law_category]

\* await sleep(300) in script 1, await sleep(500) in scripts 2 and 3.
sleepMs(v) == IF v = 1 THEN 300 ELSE 500

\* Variant of exists that never finds the collection.
existsMutNever(result) == FALSE

\* Variant of exists that compares with another name.
existsMutOtherName(result) == \E c \in result : c = OtherCollection

\* result.collections.some((c) => c.name === COLLECTION_NAME)
exists(result) == \E c \in result : c = COLLECTION_NAME

\* Variant of randomUUID that derives the identity from the row.
randomUUIDMutRowId == rows[i].ID

\* crypto.randomUUID(): an identity that has not been drawn before.
randomUUID == uuid + 1

\* A call to an external service: rec is the row position it is issued for
\* (0 for provisioning calls), result is "pending", "ok" or "error".
Call(op, rec, arg) == [op |-> op, rec |-> rec, arg |-> arg, result |-> "pending",
                       response |-> "none"]

Issue(c) == Append(calls, c)

\* The pending call is always the last one issued.
Pending == calls[Len(calls)]

Settle(result, response) ==
    [calls EXCEPT ![Len(calls)].result = result, ![Len(calls)].response = response]

Log(level, msg, args) == [level |-> level, msg |-> msg, args |-> args]

\* A line that carries no value.
NoArgs == [none |-> "none"]

\* The index service stores a point under its id, replacing a point of the
\* same id.
Upsert(pts, p) == {q \in pts : q.id # p.id} \cup {p}

\* process.exit(1)
Exit1 == pc' = "exited" /\ exitCode' = 1

Static == <<version, env, fileExists, file, run, history>>

\* -------------------------------------------------------------------- Init

\* Collections the index service may hold before the run.
InitialCollections ==
    {[n \in names |-> [size |-> IF n = COLLECTION_NAME THEN d ELSE VECTOR_SIZE,
                       distance |-> DISTANCE]] :
        names \in SUBSET {COLLECTION_NAME, OtherCollection}, d \in Dims}

InitWith(max) ==
    /\ version \in Versions
    /\ env \in SUBSET RequiredKeys
    /\ fileExists \in BOOLEAN
    /\ file \in IF fileExists THEN Files(max) ELSE {<<>>}
    /\ collections \in InitialCollections
    /\ points = {}
    /\ uuid = 0
    /\ pc = "start"
    /\ rows = <<>>
    /\ i = 1
    /\ recState = [k \in 1..Len(file) |-> PENDING]
    /\ calls = <<>>
    /\ console = <<>>
    /\ exitCode = Running
    /\ run = 1
    /\ history = <<>>

Init == InitWith(MaxRows)

InitRerun == InitWith(MaxRerunRows)

\* A run with the credentials set over a file of one row that lacks any
\* subset of the optional columns.
InitCompose ==
    /\ version \in Versions
    /\ env = RequiredKeys
    /\ fileExists = TRUE
    /\ file \in {<<RowWithout(1, t, absent)>> :
                    t \in TextValues, absent \in SUBSET OptionalColumns}
    /\ collections \in {c \in InitialCollections : OtherCollection \notin DOMAIN c}
    /\ points = {}
    /\ uuid = 0
    /\ pc = "start"
    /\ rows = <<>>
    /\ i = 1
    /\ recState = [k \in 1..Len(file) |-> PENDING]
    /\ calls = <<>>
    /\ console = <<>>
    /\ exitCode = Running
    /\ run = 1
    /\ history = <<>>

\* ----------------------------------------------------------------- actions

\* Variant of CheckKeys that goes on without the credentials.
CheckKeysMutIgnore ==
    /\ pc = "start"
    /\ pc' = "main"
    /\ UNCHANGED <<console, exitCode>>
    /\ UNCHANGED <<collections, points, uuid, rows, i, recState, calls>>
    /\ UNCHANGED Static

\* Lines 11-17: the credential check at the top of the script.
CheckKeys ==
    /\ pc = "start"
    /\ IF \E k \in RequiredKeys : k \notin env
         THEN /\ console' = Append(console, Log("error", "MISSING KEYS", NoArgs))
              /\ Exit1
         ELSE /\ pc' = "main"
              /\ UNCHANGED <<console, exitCode>>
    /\ UNCHANGED <<collections, points, uuid, rows, i, recState, calls>>
    /\ UNCHANGED Static

\* Lines 21-25 (scripts 1, 2), 229-243 (script 3): main() up to its first
\* await.  Script 3 checks the file before it provisions.
Main ==
    /\ pc = "main"
    /\ IF version = 3 /\ ~fileExists
         THEN /\ console' = console \o <<Log("log", "Starting Ingestion", NoArgs),
                                         Log("error", "FILE NOT FOUND", NoArgs)>>
              /\ Exit1
              /\ UNCHANGED calls
         ELSE /\ console' = Append(console, Log("log", "Starting Ingestion", NoArgs))
              /\ calls' = Issue(Call("getCollections", 0, "none"))
              /\ pc' = "getCollections"
              /\ UNCHANGED exitCode
    /\ UNCHANGED <<collections, points, uuid, rows, i, recState>>
    /\ UNCHANGED Static

\* Lines 36-43 (scripts 1, 2), 256-258 (script 3): what main() does once the
\* collection is provisioned: the file check of scripts 1 and 2, then
\* fs.createReadStream.  lines is what has been logged so far.
AfterProvision(lines) ==
    IF version # 3 /\ ~fileExists
      THEN /\ console' = Append(lines, Log("error", "File not found", NoArgs))
           /\ Exit1
      ELSE /\ console' = lines
           /\ pc' = "stream"
           /\ UNCHANGED exitCode

\* Lines 25-30: getCollections() answers with the names of the collections.
GetCollectionsReturn ==
    /\ pc = "getCollections"
    /\ LET result == DOMAIN collections
       IN IF ~exists(result)
            THEN /\ calls' = Append(Settle("ok", result),
                                    Call("createCollection", 0,
                                         [name |-> COLLECTION_NAME,
                                          size |-> VECTOR_SIZE,
                                          distance |-> DISTANCE]))
                 /\ console' = Append(console,
                                      Log("log", "Creating collection",
                                          [name |-> COLLECTION_NAME]))
                 /\ pc' = "createCollection"
                 /\ UNCHANGED exitCode
            ELSE /\ calls' = Settle("ok", result)
                 /\ AfterProvision(console)
    /\ UNCHANGED <<collections, points, uuid, rows, i, recState>>
    /\ UNCHANGED Static

\* Lines 31-34: the index service is unreachable or rejects the listing.
GetCollectionsThrow ==
    /\ pc = "getCollections"
    /\ calls' = Settle("error", "none")
    /\ console' = Append(console, Log("error", "Qdrant Connection Error", NoArgs))
    /\ Exit1
    /\ UNCHANGED <<collections, points, uuid, rows, i, recState>>
    /\ UNCHANGED Static

\* Line 29: the index service creates the collection (it rejects the name
\* of an existing one).
CreateCollectionReturn ==
    /\ pc = "createCollection"
    /\ Pending.arg.name \notin DOMAIN collections
    /\ collections' =
         [n \in DOMAIN collections \cup {Pending.arg.name} |->
             IF n = Pending.arg.name
               THEN [size |-> Pending.arg.size, distance |-> Pending.arg.distance]
               ELSE collections[n]]
    /\ calls' = Settle("ok", "none")
    /\ AfterProvision(console)
    /\ UNCHANGED <<points, uuid, rows, i, recState>>
    /\ UNCHANGED Static

\* Lines 31-34: the index service rejects the creation.
CreateCollectionThrow ==
    /\ pc = "createCollection"
    /\ calls' = Settle("error", "none")
    /\ console' = Append(console, Log("error", "Qdrant Connection Error", NoArgs))
    /\ Exit1
    /\ UNCHANGED <<collections, points, uuid, rows, i, recState>>
    /\ UNCHANGED Static

\* Line 45: .on('data', (data) => rows.push(data))
OnData ==
    /\ pc = "stream"
    /\ Len(rows) < Len(file)
    /\ rows' = Append(rows, file[Len(rows) + 1])
    /\ UNCHANGED <<collections, points, uuid, pc, i, recState, calls, console,
                   exitCode>>
    /\ UNCHANGED Static

\* Lines 46-49: .on('end', ...) logs the number of rows and enters the loop.
OnEnd ==
    /\ pc = "stream"
    /\ Len(rows) = Len(file)
    /\ console' = Append(console, Log("log", "Found rows", [rows |-> Len(rows)]))
    /\ i' = 1
    /\ pc' = "loop"
    /\ UNCHANGED <<collections, points, uuid, rows, recState, calls, exitCode>>
    /\ UNCHANGED Static

\* The line that the catch block writes (lines 88, 194, 305): script 2 names
\* the row by its ID column, scripts 1 and 3 name no row.
failedRowLine(row, error) ==
    IF version = 2
      THEN Log("error", "Failed Row", [ID |-> row.ID, error |-> error])
      ELSE Log("error", "Failed Row", [error |-> error])

\* Line 50: if (!row.text_th) continue;
Skip ==
    /\ pc = "loop"
    /\ i <= Len(rows)
    /\ Falsy(rows[i].text_th)
    /\ recState' = [recState EXCEPT ![i] = SKIPPED]
    /\ i' = i + 1
    /\ UNCHANGED <<collections, points, uuid, pc, rows, calls, console, exitCode>>
    /\ UNCHANGED Static

\* Variant of Process that does not await the embedding call.
ProcessMutNoAwait ==
    /\ pc = "loop"
    /\ i <= Len(rows)
    /\ ~Falsy(rows[i].text_th)
    /\ console' = Append(console, Log("log", "Processing",
                                      [section |-> rows[i].section_number_eng]))
    /\ calls' = Issue(Call("featureExtraction", i,
                           [model |-> HF_MODEL, inputs |-> textToEmbed(rows[i])]))
    /\ recState' = [recState EXCEPT ![i] = EMBEDDING]
    /\ i' = i + 1
    /\ UNCHANGED <<collections, points, uuid, pc, rows, exitCode>>
    /\ UNCHANGED Static

\* Lines 52-68: the row has a text_th: log it, compose the text and call the
\* embedding service.
Process ==
    /\ pc = "loop"
    /\ i <= Len(rows)
    /\ ~Falsy(rows[i].text_th)
    /\ console' = Append(console, Log("log", "Processing",
                                      [section |-> rows[i].section_number_eng]))
    /\ calls' = Issue(Call("featureExtraction", i,
                           [model |-> HF_MODEL, inputs |-> textToEmbed(rows[i])]))
    /\ recState' = [recState EXCEPT ![i] = EMBEDDING]
    /\ pc' = "featureExtraction"
    /\ UNCHANGED <<collections, points, uuid, rows, i, exitCode>>
    /\ UNCHANGED Static

\* Variant of FeatureExtractionReturn that checks the length of the vector
\* and takes another length for a failure of the row.
FeatureExtractionReturnMutGated ==
    /\ pc = "featureExtraction"
    /\ \E d \in Dims :
         LET embedding == [len |-> d, of |-> Pending.arg.inputs]
         IN IF d = VECTOR_SIZE
              THEN /\ calls' = Append(Settle("ok", embedding),
                                      Call("upsert", i,
                                           [collection |-> COLLECTION_NAME,
                                            point |-> [id |-> randomUUID,
                                                       vector |-> embedding,
                                                       payload |-> payload(rows[i])]]))
                   /\ uuid' = uuid + 1
                   /\ recState' = [recState EXCEPT ![i] = WRITING]
                   /\ pc' = "upsert"
                   /\ UNCHANGED <<i, console>>
              ELSE /\ calls' = Settle("ok", embedding)
                   /\ console' = Append(console,
                                        failedRowLine(rows[i], "vector length"))
                   /\ recState' = [recState EXCEPT ![i] = FAILED]
                   /\ i' = i + 1
                   /\ pc' = "loop"
                   /\ UNCHANGED uuid
    /\ UNCHANGED <<collections, points, rows, exitCode>>
    /\ UNCHANGED Static

\* Variant of FeatureExtractionReturn that takes the payload from the first
\* row.
FeatureExtractionReturnMutFirstRow ==
    /\ pc = "featureExtraction"
    /\ \E d \in Dims :
         LET embedding == [len |-> d, of |-> Pending.arg.inputs]
         IN calls' = Append(Settle("ok", embedding),
                            Call("upsert", i,
                                 [collection |-> COLLECTION_NAME,
                                  point |-> [id |-> randomUUID,
                                             vector |-> embedding,
                                             payload |-> payload(rows[1])]]))
    /\ uuid' = uuid + 1
    /\ recState' = [recState EXCEPT ![i] = WRITING]
    /\ pc' = "upsert"
    /\ UNCHANGED <<collections, points, rows, i, console, exitCode>>
    /\ UNCHANGED Static

\* Lines 65-84: the embedding service answers with a vector; the script
\* draws an identity and calls upsert with the vector and the payload.
FeatureExtractionReturn ==
    /\ pc = "featureExtraction"
    /\ \E d \in Dims :
         LET embedding == [len |-> d, of |-> Pending.arg.inputs]
         IN calls' = Append(Settle("ok", embedding),
                            Call("upsert", i,
                                 [collection |-> COLLECTION_NAME,
                                  point |-> [id |-> randomUUID,
                                             vector |-> embedding,
                                             payload |-> payload(rows[i])]]))
    /\ uuid' = uuid + 1
    /\ recState' = [recState EXCEPT ![i] = WRITING]
    /\ pc' = "upsert"
    /\ UNCHANGED <<collections, points, rows, i, console, exitCode>>
    /\ UNCHANGED Static

\* Variant of FeatureExtractionThrow that ends the process with status 1.
FeatureExtractionThrowMutAbort ==
    /\ pc = "featureExtraction"
    /\ calls' = Settle("error", "none")
    /\ console' = Append(console, failedRowLine(rows[i], "embedding error"))
    /\ recState' = [recState EXCEPT ![i] = FAILED]
    /\ Exit1
    /\ UNCHANGED <<collections, points, uuid, rows, i>>
    /\ UNCHANGED Static

\* Lines 87-90: the embedding call throws: the catch block logs the error
\* and the loop goes on with the next row.
FeatureExtractionThrow ==
    /\ pc = "featureExtraction"
    /\ calls' = Settle("error", "none")
    /\ console' = Append(console, failedRowLine(rows[i], "embedding error"))
    /\ recState' = [recState EXCEPT ![i] = FAILED]
    /\ i' = i + 1
    /\ pc' = "loop"
    /\ UNCHANGED <<collections, points, uuid, rows, exitCode>>
    /\ UNCHANGED Static

\* Lines 70-86: the index service accepts the point (its vector has the
\* length the collection is configured with); the script logs the upload
\* and starts the delay.
UpsertReturn ==
    /\ pc = "upsert"
    /\ Pending.arg.collection \in DOMAIN collections
    /\ Pending.arg.point.vector.len = collections[Pending.arg.collection].size
    /\ points' = Upsert(points, Pending.arg.point)
    /\ calls' = Append(Settle("ok", "none"), Call("sleep", i, sleepMs(version)))
    /\ console' = Append(console, Log("log", "Uploaded",
                                      [section |-> rows[i].section_number_eng]))
    /\ recState' = [recState EXCEPT ![i] = DONE]
    /\ pc' = "sleep"
    /\ UNCHANGED <<collections, uuid, rows, i, exitCode>>
    /\ UNCHANGED Static

\* Variant of UpsertThrow that tries the write of the row a second time
\* before it gives up.
UpsertThrowMutRetryOnce ==
    /\ pc = "upsert"
    /\ IF Cardinality({n \in DOMAIN calls : calls[n].op = "upsert" /\ calls[n].rec = i}) = 1
         THEN /\ calls' = Append(Settle("error", "none"),
                                 [Pending EXCEPT !.result = "pending"])
              /\ UNCHANGED <<console, recState, i, pc>>
         ELSE /\ calls' = Settle("error", "none")
              /\ console' = Append(console, failedRowLine(rows[i], "upsert error"))
              /\ recState' = [recState EXCEPT ![i] = FAILED]
              /\ i' = i + 1
              /\ pc' = "loop"
    /\ UNCHANGED <<collections, points, uuid, rows, exitCode>>
    /\ UNCHANGED Static

\* Variant of UpsertThrow in which the rejection goes unnoticed (the upsert
\* is not awaited) and the row is taken for uploaded.
UpsertThrowMutDone ==
    /\ pc = "upsert"
    /\ calls' = Settle("error", "none")
    /\ console' = Append(console, Log("log", "Uploaded",
                                      [section |-> rows[i].section_number_eng]))
    /\ recState' = [recState EXCEPT ![i] = DONE]
    /\ i' = i + 1
    /\ pc' = "loop"
    /\ UNCHANGED <<collections, points, uuid, rows, exitCode>>
    /\ UNCHANGED Static

\* Variant of UpsertThrow in which the error is not caught and ends the
\* process with status 1.
UpsertThrowMutAbort ==
    /\ pc = "upsert"
    /\ calls' = Settle("error", "none")
    /\ recState' = [recState EXCEPT ![i] = FAILED]
    /\ Exit1
    /\ UNCHANGED <<collections, points, uuid, rows, i, console>>
    /\ UNCHANGED Static

\* Variant of UpsertThrow in which the point is stored all the same.
UpsertThrowMutCommit ==
    /\ pc = "upsert"
    /\ points' = Upsert(points, Pending.arg.point)
    /\ calls' = Settle("error", "none")
    /\ console' = Append(console, failedRowLine(rows[i], "upsert error"))
    /\ recState' = [recState EXCEPT ![i] = FAILED]
    /\ i' = i + 1
    /\ pc' = "loop"
    /\ UNCHANGED <<collections, uuid, rows, exitCode>>
    /\ UNCHANGED Static

\* Lines 87-90: the upsert throws: the catch block logs the error and the
\* loop goes on with the next row; the delay of line 86 is not reached.
UpsertThrow ==
    /\ pc = "upsert"
    /\ calls' = Settle("error", "none")
    /\ console' = Append(console, failedRowLine(rows[i], "upsert error"))
    /\ recState' = [recState EXCEPT ![i] = FAILED]
    /\ i' = i + 1
    /\ pc' = "loop"
    /\ UNCHANGED <<collections, points, uuid, rows, exitCode>>
    /\ UNCHANGED Static

\* Variant of SleepReturn that stays on the same row.
SleepReturnMutRepeat ==
    /\ pc = "sleep"
    /\ calls' = Settle("ok", "none")
    /\ pc' = "loop"
    /\ UNCHANGED <<collections, points, uuid, rows, i, recState, console, exitCode>>
    /\ UNCHANGED Static

\* Line 86: the delay has elapsed; the loop goes on with the next row.
SleepReturn ==
    /\ pc = "sleep"
    /\ calls' = Settle("ok", "none")
    /\ i' = i + 1
    /\ pc' = "loop"
    /\ UNCHANGED <<collections, points, uuid, rows, recState, console, exitCode>>
    /\ UNCHANGED Static

\* Lines 90-92: the loop is over; the script logs the completion and, with
\* nothing left to wait for, the process ends with status 0.
Complete ==
    /\ pc = "loop"
    /\ i > Len(rows)
    /\ console' = Append(console, Log("log", "INGESTION COMPLETE", NoArgs))
    /\ pc' = "exited"
    /\ exitCode' = 0
    /\ UNCHANGED <<collections, points, uuid, rows, i, recState, calls>>
    /\ UNCHANGED Static

\* The script is started again, against the same index service, environment
\* and file, once the previous run has ended.
Rerun ==
    /\ pc = "exited"
    /\ run < MaxRuns
    /\ history' = Append(history,
                         [calls |-> SelectSeq(calls, LAMBDA c : c.rec = 0),
                          collections |-> collections,
                          points |-> points,
                          exitCode |-> exitCode])
    /\ run' = run + 1
    /\ pc' = "start"
    /\ rows' = <<>>
    /\ i' = 1
    /\ recState' = [k \in 1..Len(file) |-> PENDING]
    /\ calls' = <<>>
    /\ console' = <<>>
    /\ exitCode' = Running
    /\ UNCHANGED <<version, env, fileExists, file, collections, points, uuid>>

\* ---------------------------------------------------------- specifications

Next ==
    \/ CheckKeys
    \/ Main
    \/ GetCollectionsReturn
    \/ GetCollectionsThrow
    \/ CreateCollectionReturn
    \/ CreateCollectionThrow
    \/ OnData
    \/ OnEnd
    \/ Skip
    \/ Process
    \/ FeatureExtractionReturn
    \/ FeatureExtractionThrow
    \/ UpsertReturn
    \/ UpsertThrow
    \/ SleepReturn
    \/ Complete

\* One run of the script.
Spec == Init /\ [][Next]_vars

NextRerun == Next \/ Rerun

\* Successive runs of the script against the same index service.
SpecRerun == InitRerun /\ [][NextRerun]_vars

\* One run over a one-row file with optional columns missing.
SpecCompose == InitCompose /\ [][Next]_vars

\* One run in which every awaited call eventually returns or throws and
\* every pending stream event and loop step is eventually taken.
SpecFair == Init /\ [][Next]_vars /\ WF_vars(Next)

TypeOK ==
    /\ version \in Versions
    /\ pc \in {"start", "main", "getCollections", "createCollection", "stream",
               "loop", "featureExtraction", "upsert", "sleep", "exited"}
    /\ exitCode \in {Running, 0, 1}
    /\ i \in 1..(Len(file) + 1)
    /\ \A k \in DOMAIN recState :
         recState[k] \in {PENDING, SKIPPED, EMBEDDING, WRITING, DONE, FAILED}

\* ------------------------------------------------------------------ claims

\* Positions in calls of the calls of operation op issued for record k.
CallsFor(k, op) == {n \in DOMAIN calls : calls[n].op = op /\ calls[n].rec = k}

\* Positions in calls of the calls of operation op.
CallsOf(op) == {n \in DOMAIN calls : calls[n].op = op}

\* Positions in calls of the embedding and write calls.
RecordCalls == CallsOf("featureExtraction") \cup CallsOf("upsert")

EmbedFailed(k) ==
    \E n \in CallsFor(k, "featureExtraction") : calls[n].result = "error"

EmbedSucceeded(k) ==
    \E n \in CallsFor(k, "featureExtraction") : calls[n].result = "ok"

UpsertFailed(k) == \E n \in CallsFor(k, "upsert") : calls[n].result = "error"

\* The primary-text field of record k is empty or absent.
NoPrimaryText(k) == file[k].text_th = "" \/ file[k].text_th = undefined

\* The loop has been entered.
InLoop == pc \in {"loop", "featureExtraction", "upsert", "sleep"}
             \/ (pc = "exited" /\ exitCode = 0)

\* The run has reported completion and ended normally.
Completed == pc = "exited" /\ exitCode = 0

\* The run was aborted by process.exit(1).
Aborted == pc = "exited" /\ exitCode = 1

\* C1 - Eligibility gate: a record whose text_th is empty or absent never
\* gets an embedding call nor a write call; it goes from PENDING to SKIPPED
\* and the loop moves on to the next record.
C1_EligibilityGate ==
    \A k \in DOMAIN file :
        NoPrimaryText(k) =>
            /\ CallsFor(k, "featureExtraction") = {}
            /\ CallsFor(k, "upsert") = {}
            /\ recState[k] \in {PENDING, SKIPPED}
            /\ (InLoop /\ i > k) => recState[k] = SKIPPED
            /\ (InLoop /\ i <= k) => recState[k] = PENDING

\* A record without primary text was skipped and a later record was then
\* embedded and written.
C1_Witness ==
    \E k \in DOMAIN file, j \in DOMAIN file :
        /\ k < j
        /\ NoPrimaryText(k)
        /\ recState[k] = SKIPPED
        /\ recState[j] = DONE

\* C2 - Embedding-failure isolation: a record whose embedding call fails ends
\* FAILED without a write call, the loop moves on, the run is not aborted, it
\* ends only with status 0 after every record is terminal, and every eligible
\* record none of whose calls failed is then DONE.
C2_EmbeddingFailureIsolation ==
    /\ \A k \in DOMAIN file :
          EmbedFailed(k) =>
              /\ recState[k] = FAILED
              /\ CallsFor(k, "upsert") = {}
              /\ i > k
              /\ exitCode # 1
              /\ pc = "exited" =>
                    /\ exitCode = 0
                    /\ \A j \in DOMAIN file : recState[j] \in Terminal
    /\ Completed =>
          \A j \in DOMAIN file :
              (~NoPrimaryText(j) /\ ~EmbedFailed(j) /\ ~UpsertFailed(j))
                  => recState[j] = DONE

\* Three records, the embedding call failed for the second one only, the run
\* completed and the first and the third record are DONE.
C2_Witness ==
    /\ Len(file) = 3
    /\ EmbedFailed(2)
    /\ ~EmbedFailed(1) /\ ~EmbedFailed(3)
    /\ recState[1] = DONE
    /\ recState[2] = FAILED
    /\ recState[3] = DONE
    /\ Completed

\* C3 - Write-failure isolation: a record whose upsert fails ends FAILED, no
\* point of it is in the index, the loop moves on, and the run is not
\* aborted: it ends only with status 0 after every record is terminal.
C3_WriteFailureIsolation ==
    \A k \in DOMAIN file :
        UpsertFailed(k) =>
            /\ recState[k] = FAILED
            /\ \A n \in CallsFor(k, "upsert") :
                  \A p \in points : p.id # calls[n].arg.point.id
            /\ i > k
            /\ exitCode # 1
            /\ pc = "exited" =>
                  /\ exitCode = 0
                  /\ \A j \in DOMAIN file : recState[j] \in Terminal

\* The upsert of the first record failed although its vector has the length
\* of the collection, the second record is DONE and the run completed.
C3_Witness ==
    /\ Len(file) >= 2
    /\ UpsertFailed(1)
    /\ \A n \in CallsFor(1, "upsert") :
          calls[n].arg.point.vector.len = collections[COLLECTION_NAME].size
    /\ recState[1] = FAILED
    /\ recState[2] = DONE
    /\ Completed

\* C4 - Sequential ordering: at most one record is in EMBEDDING or WRITING,
\* every record before a record that has been started is terminal, every
\* record after a record in flight is PENDING, calls are issued in record
\* order and at most one call is pending.
C4_SequentialOrdering ==
    /\ Cardinality({k \in DOMAIN file : recState[k] \in {EMBEDDING, WRITING}}) <= 1
    /\ \A j \in DOMAIN file :
          (recState[j] # PENDING \/ \E n \in RecordCalls : calls[n].rec = j)
              => \A k \in 1..(j - 1) : recState[k] \in Terminal
    /\ \A j \in DOMAIN file :
          recState[j] \in {EMBEDDING, WRITING}
              => \A k \in (j + 1)..Len(file) : recState[k] = PENDING
    /\ \A m \in DOMAIN calls, n \in DOMAIN calls :
          m < n => calls[m].rec <= calls[n].rec
    /\ Cardinality({n \in DOMAIN calls : calls[n].result = "pending"}) <= 1

\* The second of three records is being written while the first is terminal
\* and the third is still pending.
C4_Witness ==
    /\ Len(file) = 3
    /\ recState[1] \in {DONE, FAILED}
    /\ recState[2] = WRITING
    /\ recState[3] = PENDING

\* A required credential is missing.
MissingKey == \E k \in RequiredKeys : k \notin env

\* The index service failed during the listing or the creation.
ProvisionFailed ==
    \E n \in CallsOf("getCollections") \cup CallsOf("createCollection") :
        calls[n].result = "error"

\* C5 - Precondition errors are fatal and precede all record work: with a
\* missing credential, a failed listing or creation, or an absent file, the
\* run ends with status 1 and no embedding or write call is ever issued; an
\* aborted run has issued none.
C5_PreconditionsFatal ==
    /\ (MissingKey /\ pc # "start") => Aborted
    /\ ProvisionFailed => Aborted
    /\ (~fileExists /\ pc \notin {"start", "main", "getCollections",
                                  "createCollection"}) => Aborted
    /\ (MissingKey \/ ProvisionFailed \/ ~fileExists \/ exitCode = 1) =>
          /\ RecordCalls = {}
          /\ \A k \in DOMAIN file : recState[k] = PENDING
          /\ exitCode # 0

\* The creation of the collection failed and the run was aborted although
\* the file holds a record with primary text.
C5_Witness ==
    /\ Aborted
    /\ \E n \in CallsOf("createCollection") : calls[n].result = "error"
    /\ \E k \in DOMAIN file : ~NoPrimaryText(k)

\* The listing call of this run that has returned, if any.
ListingsReturned == {n \in CallsOf("getCollections") : calls[n].result = "ok"}

\* The run got as far as the provisioning: the credentials are set and, in
\* script 3, the file exists.
ReachedProvisioning ==
    /\ pc \notin {"start", "main"}
    /\ ~MissingKey
    /\ ~(version = 3 /\ ~fileExists)

\* What C6 says of the create call and of the order of the calls: a create
\* call is issued if and only if the listing lacks the name, with size 768
\* and the Cosine metric, at most once, and listing and creation have
\* returned before the first embedding or write call.
CreateIffAbsent ==
    /\ Cardinality(CallsOf("createCollection")) <= 1
    /\ ListingsReturned = {} => CallsOf("createCollection") = {}
    /\ \A n \in ListingsReturned :
          (CallsOf("createCollection") # {}) <=> (COLLECTION_NAME \notin calls[n].response)
    /\ \A n \in CallsOf("createCollection") :
          calls[n].arg = [name |-> COLLECTION_NAME, size |-> 768, distance |-> "Cosine"]
    /\ \A m \in CallsOf("getCollections") \cup CallsOf("createCollection") :
          \A n \in RecordCalls : m < n /\ calls[m].result = "ok"

\* C6 as stated - in every run exactly one listing call is made (and the
\* create call is issued iff the name is absent, once, before record work).
C6_Original ==
    /\ pc = "exited" => Cardinality(CallsOf("getCollections")) = 1
    /\ CreateIffAbsent

\* C6 as amended - in every run that passes the credential check (and, in
\* script 3, the file check that there comes first) exactly one listing call
\* is made, and no run makes more than one; a create call is issued if and
\* only if the listing lacks the name, with size 768 and Cosine, at most
\* once; both have returned before the first embedding or write call.
C6_ProvisioningOnceFirst ==
    /\ Cardinality(CallsOf("getCollections")) <= 1
    /\ ReachedProvisioning => Cardinality(CallsOf("getCollections")) = 1
    /\ (pc = "exited" /\ ~ReachedProvisioning) => calls = <<>>
    /\ CreateIffAbsent

\* The listing lacked the name, the collection was created, and a record was
\* then embedded and written in the completed run.
C6_Witness ==
    /\ Completed
    /\ \E n \in CallsOf("createCollection") : calls[n].result = "ok"
    /\ \E k \in DOMAIN file : recState[k] = DONE
    /\ Cardinality(CallsOf("getCollections")) = 1

\* The provisioning calls of invocation r: those of an earlier run are kept
\* in history, those of the current run are in calls.
ProvCalls(r) ==
    IF r = run THEN SelectSeq(calls, LAMBDA c : c.rec = 0) ELSE history[r].calls

Creates(r) == {n \in DOMAIN ProvCalls(r) : ProvCalls(r)[n].op = "createCollection"}

\* Invocation r listed the collections and found the name.
FoundExisting(r) ==
    \E n \in DOMAIN ProvCalls(r) :
        /\ ProvCalls(r)[n].op = "getCollections"
        /\ ProvCalls(r)[n].result = "ok"
        /\ COLLECTION_NAME \in ProvCalls(r)[n].response

\* The provisioning of invocation r is over and none of its calls failed.
Provisioned(r) ==
    /\ ProvCalls(r) # <<>>
    /\ \A n \in DOMAIN ProvCalls(r) : ProvCalls(r)[n].result = "ok"
    /\ FoundExisting(r) \/ Creates(r) # {}

\* C7 - Provisioning idempotence: an invocation that finds the collection
\* performs no create; of two successive invocations of which the first
\* provisioned the collection, the second performs no create, the two make
\* at most one create call (exactly one if the first created) and the second
\* leaves the configuration of the collection as the first left it.
C7_ProvisioningIdempotence ==
    /\ \A r \in 1..run : FoundExisting(r) => Creates(r) = {}
    /\ \A r \in 2..run :
          Provisioned(r - 1) =>
              /\ Creates(r) = {}
              /\ Cardinality(Creates(r - 1)) + Cardinality(Creates(r))
                    = (IF FoundExisting(r - 1) THEN 0 ELSE 1)
              /\ COLLECTION_NAME \in DOMAIN collections
              /\ collections[COLLECTION_NAME]
                    = history[r - 1].collections[COLLECTION_NAME]

\* The first invocation created the collection, the second one has
\* provisioned and found it.
C7_Witness ==
    /\ run = 2
    /\ Provisioned(1)
    /\ Creates(1) # {}
    /\ Provisioned(2)
    /\ FoundExisting(2)

\* C8 - Pacing: between the embedding call of a record and the embedding
\* call of any later record, the delay started for the earlier record has
\* elapsed, whether the earlier record ended DONE or FAILED.
C8_Pacing ==
    \A m \in CallsOf("featureExtraction"), n \in CallsOf("featureExtraction") :
        m < n =>
            \E s \in CallsOf("sleep") :
                /\ m < s /\ s < n
                /\ calls[s].rec = calls[m].rec
                /\ calls[s].result = "ok"

\* Number of records in state st.
CountIn(st) == Cardinality({k \in DOMAIN file : recState[k] = st})

\* Some line of the console reports the value val under the name key.
Reported(key, val) ==
    \E n \in DOMAIN console :
        /\ key \in DOMAIN console[n].args
        /\ console[n].args[key] = val

\* C9 - Completion report: when the run has completed, the console reports
\* the number of records seen, skipped, succeeded and failed, equal to the
\* numbers of records of the file, in SKIPPED, in DONE and in FAILED.
C9_CompletionReport ==
    Completed =>
        /\ Reported("rows", Len(file))
        /\ Reported("skipped", CountIn(SKIPPED))
        /\ Reported("succeeded", CountIn(DONE))
        /\ Reported("failed", CountIn(FAILED))
        /\ Len(file) = CountIn(SKIPPED) + CountIn(DONE) + CountIn(FAILED)

\* C10 - Call counts: no record ever gets more than one embedding call or
\* more than one write call; a completed run has made one listing call, one
\* embedding call per record with primary text and none for the others, and
\* one write call per record whose embedding call succeeded and none for the
\* others; 3 records of which the second lacks primary text give, without
\* failures, 1 listing call, 2 embedding calls and 2 write calls.
C10_CallCounts ==
    /\ \A k \in DOMAIN file :
          /\ Cardinality(CallsFor(k, "featureExtraction")) <= 1
          /\ Cardinality(CallsFor(k, "upsert")) <= 1
    /\ Completed =>
          /\ Cardinality(CallsOf("getCollections")) = 1
          /\ \A k \in DOMAIN file :
                /\ Cardinality(CallsFor(k, "featureExtraction"))
                      = (IF NoPrimaryText(k) THEN 0 ELSE 1)
                /\ Cardinality(CallsFor(k, "upsert"))
                      = (IF EmbedSucceeded(k) THEN 1 ELSE 0)
          /\ \A n \in RecordCalls : calls[n].rec \in DOMAIN file
          /\ (/\ Len(file) = 3
              /\ NoPrimaryText(2) /\ ~NoPrimaryText(1) /\ ~NoPrimaryText(3)
              /\ \A n \in DOMAIN calls : calls[n].result = "ok")
                => /\ Cardinality(CallsOf("featureExtraction")) = 2
                   /\ Cardinality(CallsOf("upsert")) = 2

\* Three records of which the second lacks primary text: the completed run
\* made 1 listing call, 2 embedding calls and 2 write calls.
C10_Witness ==
    /\ Completed
    /\ Len(file) = 3
    /\ NoPrimaryText(2) /\ ~NoPrimaryText(1) /\ ~NoPrimaryText(3)
    /\ Cardinality(CallsOf("getCollections")) = 1
    /\ Cardinality(CallsOf("featureExtraction")) = 2
    /\ Cardinality(CallsOf("upsert")) = 2
    /\ recState[1] = DONE /\ recState[2] = SKIPPED /\ recState[3] = DONE

\* Positions in console of the completion line.
CompletionLines == {n \in DOMAIN console : console[n].msg = "INGESTION COMPLETE"}

\* C11 - Termination: a run that has passed its preconditions (the stream
\* of the file is open) eventually reports completion and ends normally;
\* completion is reported at most once, exactly once in a completed run, and
\* only when every record is SKIPPED, FAILED or DONE.
C11_Termination ==
    /\ (pc = "stream") ~> Completed
    /\ [](/\ Cardinality(CompletionLines) <= 1
          /\ Completed => Cardinality(CompletionLines) = 1
          /\ CompletionLines # {} =>
                /\ Completed
                /\ \A k \in DOMAIN file : recState[k] \in Terminal)

\* A run in which one record failed at the embedding and another at the
\* write has reported completion.
C11_Witness ==
    /\ Completed
    /\ CompletionLines # {}
    /\ \E k \in DOMAIN file : EmbedFailed(k)
    /\ \E k \in DOMAIN file : UpsertFailed(k)

\* The points the index held when the current run started.
PointsBefore == IF run = 1 THEN {} ELSE history[run - 1].points

\* The identities of a set of points.
Ids(pts) == {p.id : p \in pts}

\* C12 - Identity policy: the identity of every write call differs from the
\* identities of the points of earlier runs and of the other write calls of
\* the run, so no write replaces a point: the points of earlier runs are all
\* still there, every record that reached DONE has added one point, and the
\* number of points has not decreased from one run to the next.
C12_IdentityPolicy ==
    /\ \A n \in CallsOf("upsert") :
          /\ calls[n].arg.point.id \notin Ids(PointsBefore)
          /\ \A m \in CallsOf("upsert") :
                m # n => calls[m].arg.point.id # calls[n].arg.point.id
    /\ PointsBefore \subseteq points
    /\ Cardinality(points) = Cardinality(PointsBefore) + CountIn(DONE)
    /\ Cardinality(Ids(points)) = Cardinality(points)
    /\ \A r \in 2..(run - 1) :
          /\ history[r - 1].points \subseteq history[r].points
          /\ Cardinality(history[r - 1].points) <= Cardinality(history[r].points)

\* The second run has written, under a new identity, the payload and the
\* vector that the first run wrote.
C12_Witness ==
    /\ run = 2
    /\ \E p \in points, q \in PointsBefore :
          /\ p \notin PointsBefore
          /\ p.id # q.id
          /\ p.payload = q.payload
          /\ p.vector = q.vector

\* The lengths of the vectors that the embedding service returned for
\* record k.
ReturnedLens(k) ==
    {calls[n].response.len :
        n \in {m \in CallsFor(k, "featureExtraction") : calls[m].result = "ok"}}

\* Positions in console of the lines written by the catch block.
FailureLines == {n \in DOMAIN console : console[n].msg = "Failed Row"}

\* The points stored by the write calls issued for record k in this run.
PointsOf(k) ==
    {p \in points : \E n \in CallsFor(k, "upsert") : p.id = calls[n].arg.point.id}

\* C13 as stated - every point of the index has a vector of length 768, and
\* a record for which the embedding service returned another length never
\* reaches DONE.
C13_Original ==
    /\ \A p \in points : p.vector.len = 768
    /\ \A k \in DOMAIN file :
          (\E d \in ReturnedLens(k) : d # 768) => recState[k] # DONE

\* C13 as amended - every point of the index has a vector of the length the
\* collection is configured with, which is 768 when this run created the
\* collection; a record for which the embedding service returned another
\* length than the collection's never reaches DONE and has no point: its
\* write is rejected and it ends FAILED, each FAILED record being recorded
\* by one line of the catch block.
C13_VectorShape ==
    /\ \A p \in points :
          /\ COLLECTION_NAME \in DOMAIN collections
          /\ p.vector.len = collections[COLLECTION_NAME].size
    /\ (\E n \in CallsOf("createCollection") : calls[n].result = "ok") =>
          /\ collections[COLLECTION_NAME].size = 768
          /\ \A p \in points : p.vector.len = 768
    /\ \A k \in DOMAIN file :
          (\E d \in ReturnedLens(k) : d # collections[COLLECTION_NAME].size) =>
              /\ recState[k] \in {WRITING, FAILED}
              /\ PointsOf(k) = {}
              /\ CallsFor(k, "upsert") # {}
    /\ Cardinality(FailureLines) = CountIn(FAILED)

\* The embedding service returned a vector of another length than that of
\* the collection for the first record, which ended FAILED, and a vector of
\* the right length for the second, which is stored.
C13_Witness ==
    /\ Len(file) >= 2
    /\ \E d \in ReturnedLens(1) : d # collections[COLLECTION_NAME].size
    /\ recState[1] = FAILED
    /\ recState[2] = DONE
    /\ PointsOf(2) # {}

\* The value the claim expects in the composed text for the value v of a
\* column: v itself, or an empty value when the column is absent.
OrEmpty(v) == IF v = undefined THEN "" ELSE v

\* C14 - Composer tolerance: for every record with primary text, whatever
\* optional columns are absent, the text sent to the embedding service has
\* the labels Law, Section, Thai Text, Eng Text, Explanation, Keywords, Cases
\* in that order, each followed by the values of its columns, with an empty
\* value in the place of every absent column.
C14_ComposerTolerance ==
    /\ \A k \in DOMAIN file :
          (InLoop /\ i > k /\ ~NoPrimaryText(k))
              => CallsFor(k, "featureExtraction") # {}
    /\ \A n \in CallsOf("featureExtraction") :
          LET row == file[calls[n].rec]
              text == calls[n].arg.inputs
          IN /\ [j \in DOMAIN text |-> text[j][1]]
                   = <<"Law", "Section", "Thai Text", "Eng Text", "Explanation",
                       "Keywords", "Cases">>
             /\ text[1] = <<"Law", OrEmpty(row.act_name_thai), OrEmpty(row.act_name_eng)>>
             /\ text[2] = <<"Section", OrEmpty(row.section_number_eng)>>
             /\ text[3] = <<"Thai Text", row.text_th>>
             /\ text[4] = <<"Eng Text", OrEmpty(row.text_eng)>>
             /\ text[5] = <<"Explanation", OrEmpty(row.notes_thai)>>
             /\ text[6] = <<"Keywords", OrEmpty(row.keywords_th), OrEmpty(row.keywords_eng)>>
             /\ text[7] = <<"Cases", OrEmpty(row.related_cases)>>

\* The six display and filter fields of a row, as the payload is to hold
\* them.
DisplayFields(row) ==
    [act_name |-> row.act_name_thai,
     section |-> row.section_number_eng,
     text |-> row.text_th,
     explanation |-> row.notes_thai,
     url |-> row.source_url,
     category |-> row.law_category]

\* C15 - Partial-ingestion consistency: in every state of a run, every point
\* of the index was written for a record with primary text that is DONE, and
\* holds the display fields of that record and the vector that the embedding
\* call of that record returned for its composed text; every DONE record
\* has exactly one point, and no other record has any.
C15_PartialIngestionConsistency ==
    /\ \A p \in points :
          \E k \in DOMAIN file :
              /\ recState[k] = DONE
              /\ ~NoPrimaryText(k)
              /\ p \in PointsOf(k)
              /\ p.payload = DisplayFields(file[k])
              /\ \E n \in CallsFor(k, "featureExtraction") :
                    /\ calls[n].result = "ok"
                    /\ calls[n].arg.inputs[2] = <<"Section", file[k].section_number_eng>>
                    /\ p.vector = calls[n].response
    /\ \A k \in DOMAIN file :
          /\ recState[k] = DONE => Cardinality(PointsOf(k)) = 1
          /\ recState[k] # DONE => PointsOf(k) = {}
    /\ Cardinality(points) = CountIn(DONE)

\* The run is in the middle of the second record: the first one is stored,
\* the third one is still pending.
C15_Witness ==
    /\ Len(file) = 3
    /\ recState[1] = DONE
    /\ recState[2] = WRITING
    /\ recState[3] = PENDING
    /\ Cardinality(points) = 1

\* C16 as stated - an upsert call is issued for a record only if the
\* embedding service returned a vector of length 768; no upsert call carries
\* a vector of another length.
C16_Original ==
    /\ \A n \in CallsOf("upsert") : calls[n].arg.point.vector.len = 768
    /\ \A k \in DOMAIN file :
          recState[k] = WRITING => ReturnedLens(k) = {768}

\* C16 as amended - an upsert call is issued for a record if and only if
\* its embedding call returned a vector, whatever the length of the vector:
\* the call carries the returned vector unchanged; an upsert call whose
\* vector has another length than the collection is configured with is
\* never accepted.
C16_UngatedWrite ==
    /\ \A k \in DOMAIN file :
          /\ (CallsFor(k, "upsert") # {}) <=> (ReturnedLens(k) # {})
          /\ recState[k] = WRITING => ReturnedLens(k) # {}
          /\ \A n \in CallsFor(k, "upsert") :
                \E m \in CallsFor(k, "featureExtraction") :
                    /\ m < n
                    /\ calls[m].result = "ok"
                    /\ calls[n].arg.point.vector = calls[m].response
    /\ \A n \in CallsOf("upsert") :
          calls[n].result = "ok" =>
              calls[n].arg.point.vector.len
                  = collections[calls[n].arg.collection].size

\* An upsert call that carries a vector of another length than 768 is
\* pending, its record is in WRITING.
C16_Witness ==
    \E k \in DOMAIN file :
        /\ recState[k] = WRITING
        /\ \E n \in CallsFor(k, "upsert") :
              /\ calls[n].result = "pending"
              /\ calls[n].arg.point.vector.len # 768

\* The transitions of a record.
RecordTransitions ==
    {<<PENDING, SKIPPED>>, <<PENDING, EMBEDDING>>, <<EMBEDDING, WRITING>>,
     <<EMBEDDING, FAILED>>, <<WRITING, DONE>>, <<WRITING, FAILED>>}

\* C17 - Per-record state machine without retry: in every step of a run a
\* record keeps its state or takes one of the six transitions, so SKIPPED,
\* FAILED and DONE are never left; a record never gets more than one
\* embedding call or more than one write call, and a write call is issued
\* for it only after its own embedding call has succeeded.
C17_RecordStateMachine ==
    /\ [][\A k \in DOMAIN file :
            \/ recState'[k] = recState[k]
            \/ <<recState[k], recState'[k]>> \in RecordTransitions]_vars
    /\ [](\A k \in DOMAIN file :
            /\ Cardinality(CallsFor(k, "featureExtraction")) <= 1
            /\ Cardinality(CallsFor(k, "upsert")) <= 1
            /\ \A n \in CallsFor(k, "upsert") :
                  \E m \in CallsFor(k, "featureExtraction") :
                      m < n /\ calls[m].result = "ok"
            /\ recState[k] \in {EMBEDDING, FAILED, WRITING, DONE}
                  => Cardinality(CallsFor(k, "featureExtraction")) = 1
            /\ recState[k] \in {WRITING, DONE}
                  => Cardinality(CallsFor(k, "upsert")) = 1
            /\ recState[k] \in {PENDING, SKIPPED}
                  => CallsFor(k, "featureExtraction") \cup CallsFor(k, "upsert") = {})

\* The three records of a completed run ended SKIPPED, FAILED at the write
\* and DONE.
C17_Witness ==
    /\ Completed
    /\ Len(file) = 3
    /\ recState[1] = SKIPPED
    /\ recState[2] = FAILED /\ UpsertFailed(2)
    /\ recState[3] = DONE

\* The columns of a row that are not display or filter fields.
OtherColumns ==
    {"act_name_eng", "text_eng", "keywords_th", "keywords_eng", "related_cases"}

\* C18 - Payload projection: the payload of every write call, and of every
\* point stored, has exactly the six fields act_name, section, text,
\* explanation, url and category, each with the value of the corresponding
\* column of the record the call is issued for (absent when the column is
\* absent), and none of them holds the value of another column.
C18_PayloadProjection ==
    /\ \A n \in CallsOf("upsert") :
          LET p == calls[n].arg.point.payload
              row == file[calls[n].rec]
          IN /\ DOMAIN p = {"act_name", "section", "text", "explanation", "url",
                            "category"}
             /\ p = DisplayFields(row)
             /\ \A f \in DOMAIN p : \A c \in OtherColumns :
                   row[c] # undefined => p[f] # row[c]
    /\ \A q \in points :
          \E n \in CallsOf("upsert") :
              /\ q.id = calls[n].arg.point.id
              /\ q.payload = calls[n].arg.point.payload

\* A point is stored for a row that has an English text but no explanation
\* and no category.
C18_Witness ==
    \E q \in points :
        /\ q.payload.text = "th"
        /\ q.payload.explanation = undefined
        /\ q.payload.category = undefined
        /\ q.payload.url # undefined
        /\ file[1].text_eng # undefined

\* Line n of the console names record k, by its ID or by its section.
NamesRecord(n, k) ==
    \/ /\ "ID" \in DOMAIN console[n].args
       /\ console[n].args.ID = file[k].ID
    \/ /\ "section" \in DOMAIN console[n].args
       /\ console[n].args.section = file[k].section_number_eng

\* C19 - Failure reporting: for every FAILED record the console holds
\* exactly one failure line that carries the error and names the record;
\* no failure line names a SKIPPED or DONE record, and there are as many
\* failure lines as FAILED records.
C19_FailureReporting ==
    /\ \A k \in DOMAIN file :
          /\ recState[k] = FAILED =>
                Cardinality({n \in FailureLines :
                                /\ NamesRecord(n, k)
                                /\ "error" \in DOMAIN console[n].args}) = 1
          /\ recState[k] \in {SKIPPED, DONE} =>
                \A n \in FailureLines : ~NamesRecord(n, k)
    /\ Cardinality(FailureLines) = CountIn(FAILED)

\* C20 - Source check versus provisioning: when the file is absent, no
\* create-collection call is issued and the collections of the index
\* service are those the run found.
C20_NoCreateWhenFileAbsent ==
    ~fileExists =>
        /\ CallsOf("createCollection") = {}
        /\ \A n \in ListingsReturned : calls[n].response = DOMAIN collections

====
